---- MODULE Spec2Model ----
(***************************************************************************)
(* Model of mtgdc_aggregator.Aggregator (src/__init__.py): construction   *)
(* of the co-occurrence ledger from a corpus of decks, the pruning loop   *)
(* of aggregate(), and the decklist / robustesse read-outs.               *)
(*                                                                         *)
(* A card instance, the string f"{card} {i}", is the pair <<card, i>>.    *)
(* Python dicts and Counters keep insertion order; they are sequences of  *)
(* [key, val] records here, because the order of the ledger decides which *)
(* of several tied cards _remove_cards removes first.                     *)
(* A rank, count * (1 / 2 ** len), is kept as an integer in units of      *)
(* 2 ** -MaxOrder (exact: the floats involved are small dyadic numbers).  *)
(* Decks list each card name at most once.                                *)
(***************************************************************************)
EXTENDS Integers, Sequences, FiniteSets

\* ---- bounds of the model ----
MaxQty == 2
MaxDecks == 2
MaxOrder == 2
MaxTarget == 2

\* default of the "size" keyword of the constructor
DefaultSize == 100

Names == {"Bolt", "Ponder"}

\* what BanlistCompiler().is_banned may answer: nothing banned, or Ponder banned
Banlists == {{}, {"Ponder"}}

\* position of a name in string order
NameRank(n) == IF n = "Bolt" THEN 0 ELSE 1

Quantities == {-1} \cup (0..MaxQty)
Orders == 0..MaxOrder
Targets == ({-1} \cup (0..MaxTarget)) \cup {DefaultSize}

VARIABLES
    ctor,                       \* the running constructor: its banlist and the deck of its loop
    pc,                         \* "new", "constructed", "running", "done", "raised"
    err,                        \* exception that left the last call, or "none"
    ordre,                      \* self.ordre
    size,                       \* self.size
    decklists,                  \* self.decklists (expanded)
    ranking_structure,          \* self.ranking_structure
    initial_ranking_structure,  \* self._initial_ranking_structure
    tmp_collective,             \* the keys of tmp_collective of __init__
    collective,                 \* self.collective
    bar,                        \* the ProgressBar of the running aggregate()
    steps,                      \* number of _remove_cards calls of this run
    before                      \* history of the last _remove_cards call: collective and
                                \* ledgers when it started, and its local ranks

vars == <<ctor, pc, err, ordre, size, decklists, ranking_structure,
          initial_ranking_structure, tmp_collective, collective, bar, steps, before>>

\* ---- small helpers ----
Range(s) == {s[i] : i \in DOMAIN s}

Pow2(n) == IF n <= 0 THEN 1 ELSE 2 ^ n

\* injective sequences over S (every arrangement of every subset)
RECURSIVE Arrangements(_)
Arrangements(S) ==
    {<<>>} \cup UNION {{<<x>> \o t : t \in Arrangements(S \ {x})} : x \in S}

\* ---- inputs ----
\* a deck is a list of (qty, card) pairs
RawDecks ==
    UNION {{[i \in 1..Len(ns) |-> <<q[i], ns[i]>>] : q \in [1..Len(ns) -> Quantities]}
           : ns \in Arrangements(Names)}

\* ---- string order of card instances, tuple(sorted(comb)) ----
CardLess(a, b) ==
    \/ NameRank(a[1]) < NameRank(b[1])
    \/ a[1] = b[1] /\ a[2] < b[2]

RECURSIVE Insert(_, _)
Insert(x, s) ==
    IF s = <<>> THEN <<x>>
    ELSE IF CardLess(x, Head(s)) THEN <<x>> \o s
    ELSE <<Head(s)>> \o Insert(x, Tail(s))

RECURSIVE sorted(_)
sorted(s) == IF s = <<>> THEN <<>> ELSE Insert(Head(s), sorted(Tail(s)))

Abs(d) == IF d < 0 THEN 0 - d ELSE d

\* ---- Aggregator.__init__: expansion of one deck ----
\* for i in range(int(qty)): an empty range when qty <= 0
\* variant: range(abs(int(qty)))
CopiesAbs(qty, card) ==
    IF qty = 0 THEN <<>> ELSE [i \in 1..Abs(qty) |-> <<card, i - 1>>]

Copies(qty, card) ==
    IF qty <= 0 THEN <<>> ELSE [i \in 1..qty |-> <<card, i - 1>>]

RECURSIVE ExpandDeck(_, _)
ExpandDeck(deck, banned) ==
    IF deck = <<>> THEN <<>>
    ELSE LET qty == Head(deck)[1]
             card == Head(deck)[2]
         IN (IF card \in banned THEN <<>> ELSE Copies(qty, card))
            \o ExpandDeck(Tail(deck), banned)

\* ---- itertools.combinations(lst, r), in its order ----
RECURSIVE combinations(_, _)
combinations(lst, r) ==
    IF r = 0 THEN <<<<>>>>
    ELSE IF lst = <<>> THEN <<>>
    ELSE LET with == combinations(Tail(lst), r - 1)
         IN [i \in 1..Len(with) |-> <<Head(lst)>> \o with[i]]
            \o combinations(Tail(lst), r)

RECURSIVE CombsUpTo(_, _, _)
CombsUpTo(lst, i, max_size) ==
    IF i >= max_size THEN <<>>
    ELSE LET c == combinations(lst, i + 1)
         IN [j \in 1..Len(c) |-> sorted(c[j])] \o CombsUpTo(lst, i + 1, max_size)

get_combinations(lst, max_size) == CombsUpTo(lst, 0, max_size)

\* ---- ordered dictionaries ----
HasKey(d, k) == \E i \in DOMAIN d : d[i].key = k
Keys(d) == {d[i].key : i \in DOMAIN d}

\* d[k] += v, the key appended on its first use
IndexOf(d, k) == CHOOSE i \in DOMAIN d : d[i].key = k
Get(d, k, default) == IF HasKey(d, k) THEN d[IndexOf(d, k)].val ELSE default

AddTo(d, k, v) ==
    IF HasKey(d, k)
    THEN [d EXCEPT ![IndexOf(d, k)].val = @ + v]
    ELSE Append(d, [key |-> k, val |-> v])

\* Counter.update(iterable)
RECURSIVE CounterUpdate(_, _)
CounterUpdate(c, lst) ==
    IF lst = <<>> THEN c ELSE CounterUpdate(AddTo(c, Head(lst), 1), Tail(lst))

\* ---- Aggregator._calculate_ranks ----
\* count * (1 / (2 ** len(combination))), in units of 2 ** -MaxOrder
RankOf(count, comb) == count * Pow2(MaxOrder - Len(comb))

\* variant: the stale combinations are never dropped
UpdatedRankingKeepAll(rs, coll) == rs

\* variant: set(combination) < self.collective
UpdatedRankingStrict(rs, coll) ==
    SelectSeq(rs, LAMBDA e : Range(e.key) \subseteq coll /\ Range(e.key) # coll)

UpdatedRanking(rs, coll) == SelectSeq(rs, LAMBDA e : Range(e.key) \subseteq coll)

RECURSIVE AddRankToCards(_, _, _)
AddRankToCards(ranks, comb, rank) ==
    IF comb = <<>> THEN ranks
    ELSE AddRankToCards(AddTo(ranks, Head(comb), rank), Tail(comb), rank)

RECURSIVE RanksOf(_, _)
RanksOf(entries, ranks) ==
    IF entries = <<>> THEN ranks
    ELSE LET e == Head(entries)
         IN RanksOf(Tail(entries), AddRankToCards(ranks, e.key, RankOf(e.val, e.key)))

\* Aggregator.transpose_dict: value -> list of keys, in the order met
AppendTo(d, k, x) ==
    IF HasKey(d, k)
    THEN [d EXCEPT ![IndexOf(d, k)].val = Append(@, x)]
    ELSE Append(d, [key |-> k, val |-> <<x>>])

RECURSIVE TransposeInto(_, _)
TransposeInto(input, output) ==
    IF input = <<>> THEN output
    ELSE TransposeInto(Tail(input), AppendTo(output, Head(input).val, Head(input).key))

\* variant: the keys of one value are collected in reverse order
RECURSIVE TransposeReversed(_)
TransposeReversed(input_dict) ==
    IF input_dict = <<>> THEN <<>>
    ELSE AppendTo(TransposeReversed(Tail(input_dict)), Head(input_dict).val,
                  Head(input_dict).key)

transpose_dict(input_dict) == TransposeInto(input_dict, <<>>)

\* the value _calculate_ranks returns, from the combinations it keeps
calculate_ranks(updated_ranking) == transpose_dict(RanksOf(updated_ranking, <<>>))

\* variant: max(ranks.keys())
Max(S) == CHOOSE x \in S : \A y \in S : x >= y

\* min(ranks.keys())
Min(S) == CHOOSE x \in S : \A y \in S : x <= y

\* ---- Aggregator._remove_cards: the loop over ranks[lowest_rank] ----
\* variant: the whole tied group is removed, the size is not tested
RemoveLoopWholeGroup(coll, cards, target) == coll \ Range(cards)

\* variant: the whole group if that does not undershoot, else one card
RemoveLoopOneOnUndershoot(coll, cards, target) ==
    IF Cardinality(coll) - Len(cards) >= target THEN coll \ Range(cards)
    ELSE IF cards = <<>> THEN coll ELSE coll \ {Head(cards)}

\* variant: the test of the loop inverted
RECURSIVE RemoveLoopInverted(_, _, _)
RemoveLoopInverted(coll, cards, target) ==
    IF cards = <<>> THEN coll
    ELSE IF Cardinality(coll) < target
         THEN RemoveLoopInverted(coll \ {Head(cards)}, Tail(cards), target)
         ELSE coll

RECURSIVE RemoveLoop(_, _, _)
RemoveLoop(coll, cards, target) ==
    IF cards = <<>> THEN coll
    ELSE IF Cardinality(coll) > target
         THEN RemoveLoop(coll \ {Head(cards)}, Tail(cards), target)
         ELSE coll

LowestGroup(ranks) == IF ranks = <<>> THEN <<>> ELSE Get(ranks, Min(Keys(ranks)), <<>>)

\* ---- Aggregator.decklist ----
remove_numeric_suffix(card) == card[1]

\* sorted(Counter(decklist).items()) as a list of <<qty, carte>>, "qty carte"
RECURSIVE SortedByName(_)
SortedByName(S) ==
    IF S = {} THEN <<>>
    ELSE LET n == CHOOSE x \in S : \A y \in S : NameRank(x) <= NameRank(y)
         IN <<n>> \o SortedByName(S \ {n})

concatenate(coll) ==
    LET present == {remove_numeric_suffix(c) : c \in coll}
        ordered == SortedByName(present)
    IN [i \in DOMAIN ordered |->
          <<Cardinality({c \in coll : remove_numeric_suffix(c) = ordered[i]}), ordered[i]>>]

decklist == concatenate(collective)

\* ---- Aggregator.robustesse ----
\* the score as a fraction; den = 0 stands for float("inf")
\* variant: the current count added to the initial one
RECURSIVE SumRankChangesAdded(_, _)
SumRankChangesAdded(initial_ranks, current) ==
    IF initial_ranks = <<>> THEN 0
    ELSE Abs(Get(current, Head(initial_ranks).key, 0) + Head(initial_ranks).val)
         + SumRankChangesAdded(Tail(initial_ranks), current)

\* sum(rank_changes.values()), rank_changes built over the keys of initial_ranks
RECURSIVE SumRankChanges(_, _)
SumRankChanges(initial_ranks, current) ==
    IF initial_ranks = <<>> THEN 0
    ELSE Abs(Get(current, Head(initial_ranks).key, 0) - Head(initial_ranks).val)
         + SumRankChanges(Tail(initial_ranks), current)

Score(initial_ranks, current) ==
    IF Len(initial_ranks) > 0
    THEN [num |-> SumRankChanges(initial_ranks, current), den |-> Len(initial_ranks)]
    ELSE [num |-> 1, den |-> 0]

robustesse == Score(initial_ranking_structure, ranking_structure)

ScoreIsZero(s) == s.den > 0 /\ s.num = 0
ScoreIsInf(s) == s.den = 0

\* ---- the state machine ----
NoBar == [start |-> 0, previous_size |-> 0, stop |-> 0]
NoCtor == [banned |-> {}, deck |-> <<>>]
NoStep == [collective |-> {}, ranking_structure |-> <<>>, initial_ranking_structure |-> <<>>,
           ranks |-> <<>>]

\* Aggregator(decklists, ordre=k) is entered: ordre, size and the empty counters are set
Init ==
    /\ ctor \in [banned : Banlists, deck : {<<>>}]
    /\ pc = "new"
    /\ err = "none"
    /\ ordre \in Orders
    /\ size = DefaultSize
    /\ decklists = <<>>
    /\ ranking_structure = <<>>
    /\ initial_ranking_structure = <<>>
    /\ tmp_collective = {}
    /\ collective = {}
    /\ bar = NoBar
    /\ steps = 0
    /\ before = NoStep

\* __init__ takes the next deck of its argument: the deck is expanded, then counted
AddDeck(deck) ==
    /\ pc = "new"
    /\ Len(decklists) < MaxDecks
    /\ LET expanded == ExpandDeck(deck, ctor.banned)
       IN /\ decklists' = Append(decklists, expanded)
          /\ ranking_structure' =
                 CounterUpdate(ranking_structure, get_combinations(expanded, ordre))
          /\ tmp_collective' = tmp_collective \cup Range(expanded)
    /\ ctor' = [ctor EXCEPT !.deck = deck]
    /\ UNCHANGED <<pc, err, ordre, size, initial_ranking_structure, collective, bar, steps,
                   before>>

\* the decks are exhausted: __init__ sets collective and the snapshot, and returns
Construct ==
    /\ pc = "new"
    /\ collective' = tmp_collective
    /\ initial_ranking_structure' = ranking_structure
    /\ tmp_collective' = {}
    /\ ctor' = NoCtor
    /\ pc' = "constructed"
    /\ UNCHANGED <<err, ordre, size, decklists, ranking_structure, bar, steps, before>>

\* aggregate(size=t) up to the first test of the loop; t = self.size when no size is given
Aggregate(t) ==
    /\ pc = "constructed"
    /\ size' = t
    /\ bar' = [start |-> Cardinality(collective), previous_size |-> Cardinality(collective),
               stop |-> t]
    /\ pc' = "running"
    /\ UNCHANGED <<ctor, err, ordre, decklists, ranking_structure,
                   initial_ranking_structure, tmp_collective, collective, steps, before>>

\* one iteration of the loop: _remove_cards, then progress_bar.current_size
\* (updated, ranks, lowest: updated_ranking, the ranks returned, ranks[lowest_rank])
RemoveCards ==
    /\ pc = "running"
    /\ Cardinality(collective) > size
    /\ \E updated \in {UpdatedRanking(ranking_structure, collective)} :
       \E ranks \in {calculate_ranks(updated)} :
       \E lowest \in {LowestGroup(ranks)} :
          /\ ranking_structure' = updated
          /\ steps' = steps + 1
          /\ before' = [collective |-> collective, ranking_structure |-> ranking_structure,
                        initial_ranking_structure |-> initial_ranking_structure,
                        ranks |-> ranks]
          /\ IF ranks = <<>>
             THEN \* min() of an empty sequence
                  /\ err' = "ValueError"
                  /\ pc' = "raised"
                  /\ UNCHANGED <<collective, bar>>
             ELSE IF ~(Range(lowest) \subseteq collective)
             THEN \* set.remove of a missing element
                  /\ err' = "KeyError"
                  /\ pc' = "raised"
                  /\ UNCHANGED <<collective, bar>>
             ELSE /\ collective' = RemoveLoop(collective, lowest, size)
                  /\ IF bar.stop = bar.start
                     THEN /\ err' = "ZeroDivisionError"
                          /\ pc' = "raised"
                          /\ bar' = bar
                     ELSE /\ bar' = [bar EXCEPT !.previous_size = Cardinality(collective')]
                          /\ UNCHANGED <<err, pc>>
    /\ UNCHANGED <<ctor, ordre, size, decklists, initial_ranking_structure, tmp_collective>>

\* the loop test fails: aggregate returns
Return ==
    /\ pc = "running"
    /\ ~(Cardinality(collective) > size)
    /\ pc' = "done"
    /\ UNCHANGED <<ctor, err, ordre, size, decklists, ranking_structure,
                   initial_ranking_structure, tmp_collective, collective, bar, steps,
                   before>>

Next ==
    \/ \E deck \in RawDecks : AddDeck(deck)
    \/ Construct
    \/ \E t \in Targets : Aggregate(t)
    \/ RemoveCards
    \/ Return

Spec == Init /\ [][Next]_vars

\* ---- vocabulary of the properties ----
\* the collective as the constructor left it
InitialCollective == UNION {Range(decklists[i]) : i \in DOMAIN decklists}

Called == pc \in {"running", "done", "raised"}

\* the state a pruning step leaves: Pruned; Stepped: and the step raised nothing
Pruned == pc \in {"running", "raised"} /\ steps >= 1
Stepped == pc = "running" /\ steps >= 1

\* the instances the last step removed
Removed == before.collective \ collective

\* the tied group of lowest rank the last step found
StepGroup == LowestGroup(before.ranks)

Stale(rs, coll) == {i \in DOMAIN rs : ~(Range(rs[i].key) \subseteq coll)}

\* the rank of a card as the specification defines it: the sum of count * 2^-size over
\* the combinations of the ledger that contain the card and lie within the collective
RECURSIVE SpecRank(_, _, _)
SpecRank(card, rs, coll) ==
    IF rs = <<>> THEN 0
    ELSE (IF card \in Range(Head(rs).key) /\ Range(Head(rs).key) \subseteq coll
          THEN Head(rs).val * Pow2(MaxOrder - Len(Head(rs).key)) ELSE 0)
         + SpecRank(card, Tail(rs), coll)

\* ---- C1 ----
\* C1: for order >= 1 and target t >= 0, once aggregate(size=t) has returned the
\* collective has exactly t instances if it had at least t at the start, and is
\* otherwise untouched, no pruning step having been taken.
C1_TargetSizeReached ==
    (pc = "done" /\ ordre >= 1 /\ size >= 0) =>
        IF Cardinality(InitialCollective) >= size
        THEN Cardinality(collective) = size
        ELSE steps = 0 /\ collective = InitialCollective

\* a run over a corpus whose ranks all tie, pruned by at least two instances
C1_Witness ==
    /\ pc = "done" /\ ordre = 1 /\ steps >= 1 /\ size >= 1
    /\ \A i \in DOMAIN initial_ranking_structure : initial_ranking_structure[i].val = 1
    /\ Cardinality(InitialCollective) >= size + 2
    /\ Cardinality(collective) = size

\* ---- C2 ----
\* C2 as stated: after any number of pruning steps, every combination of the
\* ledger has all its members in the collective.
C2_Original ==
    (Called /\ steps >= 1) => Stale(ranking_structure, collective) = {}

\* C2 amended: after a pruning step every combination of the ledger has all its
\* members in the collective as it was at the start of that step; a combination
\* that lost a member in the step stays in the ledger until the next rank computation.
C2_LedgerWithinStepStart ==
    Pruned => Stale(ranking_structure, before.collective) = {}

\* a second step has dropped combinations, and the cards it removed are still in the ledger
C2_Witness ==
    /\ pc = "running" /\ steps >= 2
    /\ Len(ranking_structure) < Len(initial_ranking_structure)
    /\ Stale(ranking_structure, collective) # {}

\* ---- C3 ----
ScenarioDeck == <<<<"Bolt", 0>>, <<"Bolt", 1>>, <<"Ponder", 0>>>>

\* two decks, each [(2, Bolt), (1, Ponder)], order 1, target 2
InScenario ==
    Called /\ decklists = <<ScenarioDeck, ScenarioDeck>> /\ ordre = 1 /\ size = 2

Count(card) == Get(initial_ranking_structure, <<card>>, 0)

\* C3 as stated: in the scenario the Bolt instances are counted higher than the
\* Ponder instance and the rendered decklist after aggregate is the line "2 Bolt".
C3_Original ==
    (InScenario /\ pc = "done") =>
        /\ Count(<<"Bolt", 0>>) > Count(<<"Ponder", 0>>)
        /\ Count(<<"Bolt", 1>>) > Count(<<"Ponder", 0>>)
        /\ decklist = <<<<2, "Bolt">>>>

\* C3 amended: in the scenario the three instances are each counted 2 and tie; the
\* single pruning step removes "Bolt 0", the first of the ledger, and the rendered
\* decklist after aggregate is "1 Bolt", "1 Ponder".
C3_ScenarioResult ==
    InScenario =>
        /\ Count(<<"Bolt", 0>>) = 2 /\ Count(<<"Bolt", 1>>) = 2 /\ Count(<<"Ponder", 0>>) = 2
        /\ pc # "raised"
        /\ pc = "done" =>
              /\ steps = 1
              /\ collective = {<<"Bolt", 1>>, <<"Ponder", 0>>}
              /\ decklist = <<<<1, "Bolt">>, <<1, "Ponder">>>>

C3_Witness == InScenario /\ pc = "done" /\ Cardinality(collective) = 2

\* ---- C4 ----
\* C4 as stated: whenever the target is at least the size of the initial
\* collective, no pruning step is taken and the robustness score is 0.
C4_Original ==
    (pc = "done" /\ size >= Cardinality(InitialCollective)) =>
        steps = 0 /\ ScoreIsZero(robustesse)

\* C4 amended: whenever the target is at least the size of the initial collective,
\* no pruning step is taken, and the robustness score is 0 if the initial ledger
\* has a combination and +inf if it has none (empty corpus, every item filtered
\* out, order 0).
C4_NoPruningScore ==
    (pc = "done" /\ size >= Cardinality(InitialCollective)) =>
        /\ steps = 0
        /\ collective = InitialCollective
        /\ IF initial_ranking_structure # <<>>
           THEN ScoreIsZero(robustesse) ELSE ScoreIsInf(robustesse)

C4_Witness ==
    /\ pc = "done" /\ size >= Cardinality(InitialCollective)
    /\ Len(initial_ranking_structure) >= 3
    /\ ScoreIsZero(robustesse)

\* ---- C5 ----
\* C5: for every target <= 0 (order >= 1), aggregate raises no error, leaves the
\* collective empty, and the rendered decklist is then empty.
C5_NonPositiveTarget ==
    (Called /\ ordre >= 1 /\ size <= 0) =>
        /\ pc # "raised" /\ err = "none"
        /\ pc = "done" => (collective = {} /\ decklist = <<>>)

\* ---- C6 ----
NegativePairs(deck) == {j \in DOMAIN deck : deck[j][1] < 0}

Expanded == pc = "new" /\ Len(decklists) >= 1

\* C6 as stated: the expansion of a deck with a negative quantity fails with
\* InvalidQuantity.
C6_Original ==
    (Expanded /\ NegativePairs(ctor.deck) # {}) => err = "InvalidQuantity"

\* C6 amended: a (quantity, name) pair with a negative quantity raises no error:
\* the name contributes zero instances to its deck, the other pairs of the deck
\* are expanded as usual, and the construction can complete.
C6_NegativeQuantityIsEmpty ==
    /\ Expanded =>
          /\ err = "none"
          /\ ENABLED Construct
          /\ \A j \in DOMAIN ctor.deck :
                LET qty == ctor.deck[j][1]
                    card == ctor.deck[j][2]
                    got == Cardinality({c \in Range(decklists[Len(decklists)]) : c[1] = card})
                IN IF qty < 0 \/ card \in ctor.banned THEN got = 0 ELSE got = qty
    /\ pc = "constructed" => err = "none"

\* a deck with a negative pair and a positive one has been expanded
C6_Witness ==
    /\ Expanded
    /\ NegativePairs(ctor.deck) # {}
    /\ decklists[Len(decklists)] # <<>>

\* ---- C7 ----
\* C7 as stated: with g tied instances of lowest rank, c instances in the
\* collective and target t, a step removes the g instances if c - g >= t and
\* exactly one instance otherwise.
C7_Original ==
    Stepped =>
        IF Cardinality(before.collective) - Len(StepGroup) >= size
        THEN Removed = Range(StepGroup)
        ELSE Cardinality(Removed) = 1

\* C7 amended: a step removes the g tied instances if c - g >= t; otherwise it
\* removes exactly c - t of them, the first c - t in the order of the group,
\* which brings the collective to the target within that step.
C7_RemovalQuantity ==
    Stepped =>
        LET c == Cardinality(before.collective)
            g == Len(StepGroup)
        IN IF c - g >= size
           THEN Removed = Range(StepGroup) /\ Cardinality(Removed) = g
           ELSE /\ Removed = Range(SubSeq(StepGroup, 1, c - size))
                /\ Cardinality(Removed) = c - size
                /\ Cardinality(collective) = size

\* a step met a tied group too large for the target and removed two or more of it
C7_Witness ==
    /\ Stepped /\ size >= 0
    /\ Cardinality(before.collective) - Len(StepGroup) < size
    /\ Cardinality(Removed) >= 2
    /\ Cardinality(collective) = size

\* ---- C8 ----
\* C8: every instance a step removes has the minimum rank among the instances of
\* the collective at the start of the step, the rank being that of the specification.
C8_LowestRankRemoved ==
    Pruned =>
        LET removed == {SpecRank(c, before.ranking_structure, before.collective) : c \in Removed}
            all == {SpecRank(c, before.ranking_structure, before.collective)
                       : c \in before.collective}
        IN \A r \in removed : \A a \in all : r <= a

\* a step removed an instance although the ranks were not all tied
C8_Witness ==
    /\ Stepped /\ ordre = 2
    /\ Len(before.ranks) >= 2
    /\ Removed # {}

\* ---- C9 ----
\* the (combination, count) pairs of a ledger
Pairs(d) == {<<d[i].key, d[i].val>> : i \in DOMAIN d}

SubLedger ==
    /\ Pairs(ranking_structure) \subseteq Pairs(initial_ranking_structure)
    /\ \A e \in Pairs(initial_ranking_structure) :
          e[1] \notin Keys(ranking_structure) => ~(Range(e[1]) \subseteq collective)

\* C9: during an aggregation run the ledger is a sub-mapping of the initial
\* snapshot with the same counts, every combination missing from it has a member
\* that left the collective, and no pruning step changes the snapshot.
C9_LedgerOnlyShrinks ==
    /\ (pc # "new" /\ ranking_structure # initial_ranking_structure) => SubLedger
    /\ Pruned => initial_ranking_structure = before.initial_ranking_structure

C9_Witness ==
    /\ pc = "running" /\ steps >= 2
    /\ ranking_structure # <<>>
    /\ Len(ranking_structure) < Len(initial_ranking_structure)

\* ---- C10 ----
\* C10: for order >= 1 and target >= 0 every pruning step removes at least one
\* instance and adds none and raises no error; the collective stays within the
\* initial collective and has lost at least one instance per step, so that at
\* most (initial size - target) steps are taken before the test of the loop
\* fails and aggregate returns.
C10_Terminates ==
    (Called /\ ordre >= 1 /\ size >= 0) =>
        /\ pc # "raised" /\ err = "none"
        /\ steps >= 1 => (collective \subseteq before.collective /\ Removed # {})
        /\ collective \subseteq InitialCollective
        /\ Cardinality(collective) <= Cardinality(InitialCollective) - steps
        /\ steps <= (IF Cardinality(InitialCollective) > size
                     THEN Cardinality(InitialCollective) - size ELSE 0)
        /\ (pc = "running" /\ Cardinality(collective) <= size) => ENABLED Return

C10_Witness ==
    /\ pc = "done" /\ ordre >= 1 /\ size >= 0
    /\ steps >= 2 /\ steps < Cardinality(InitialCollective) - size

====
